---- MODULE Spec2Model ----
(***************************************************************************)
(* Per-scenario execution context (CustomWorld) of the Keycloak BDD suite: *)
(* the Before/After hooks of the login steps, the configuration resolver   *)
(* loadConfig, and the single-worker scenario runner configured by         *)
(* cucumber.config.js that drives them over login.feature.                 *)
(*                                                                         *)
(* Every await of a hook is one step of the model, so that the states      *)
(* between two awaits (a handle acquired, the next one not yet) exist.     *)
(*                                                                         *)
(* The step definitions are also called directly on a world (SpecSteps,    *)
(* SpecClock, SpecEngines); the copies of loadConfig (SpecConfig), the     *)
(* report cleanup script (SpecClean) and the time stamp of the report      *)
(* index (SpecIndex) have specifications of their own.                     *)
(***************************************************************************)
EXTENDS Naturals, Integers, Sequences, FiniteSets, TLC

VARIABLES
    profile,      \* the runner profile of cucumber.config.js in use
    nodeEnv,      \* process.env.NODE_ENV ("" when unset or empty)
    files,        \* config/<name>.json : "missing" | "malformed" | "ok"
    scn,          \* index of the scenario being run
    attempt,      \* attempt number of that scenario (1 = first run)
    pc,           \* position of the runner / of the running hook
    stepIdx,      \* index of the next step of the scenario
    result,       \* worst status of the attempt so far
    world,        \* the CustomWorld of the attempt
    wid,          \* identity of that object (number of worlds constructed)
    res,          \* the resources behind the handles of this world
    leaked,       \* browsers of earlier worlds that are still open
    phase,        \* lifecycle state of this world
    events,       \* hook and step executions of this attempt, in order
    acqLog,       \* acquisitions made by Before on this world, in order
    closeLog,     \* close calls made by After on this world, in order
    beforeErr,    \* Before raised in this attempt
    afterErr,     \* After raised in its latest invocation
    afterCalls,   \* invocations of After on this world
    beforeRuns,   \* executions of Before for the current scenario
    afterRuns,    \* executions of After for the current scenario
    call,         \* the latest direct call of a step definition
    now,          \* the clock Date.now() reads
    issued,       \* the state and nonce values generated so far
    reports       \* the files of reports/lighthouse

vars == <<profile, nodeEnv, files, scn, attempt, pc, stepIdx, result, world,
          wid, res, leaked, phase, events, acqLog, closeLog, beforeErr,
          afterErr, afterCalls, beforeRuns, afterRuns, call, now, issued,
          reports>>

\* the variables of the direct-call harnesses and of the report scripts
harness == <<call, now, issued, reports>>

----------------------------------------------------------------------------
(* Bounds *)

\* extra invocations of After on one world made by the direct-call harness
MaxReinvoke == 1

\* state/nonce pairs generated in one run of the clock harness
MaxCalls == 2

\* last value of the clock in the clock harness
MaxClock == 2

----------------------------------------------------------------------------
(* cucumber.config.js *)

Profiles == {"default", "html", "json"}

DefaultRetry == 1

\* variant: retry: 1 applied to every profile
Retry_EveryProfile(p) == DefaultRetry

\* retry: 1 is set on the default profile only; the runner's default is 0
Retry(p) == IF p = "default" THEN DefaultRetry ELSE 0

----------------------------------------------------------------------------
(* login.feature and the registered step definitions *)

St(d, a) == [def |-> d, arg |-> a]

Feature ==
  << << St("User navigates to the application", ""),
        St("I enter the username from config", ""),
        St("I enter the password from config", ""),
        St("I click on login button", ""),
        St("User should logged in successfully", ""),
        St("Logout from the application", "") >>,
     << St("User navigates to the application", ""),
        St("I enter the username as {string}", "invaliduser"),
        St("I enter the password as {string}", "wrongpassword"),
        St("I click on login button", ""),
        St("I should see an error message", "") >>,
     << St("User navigates to the application", ""),
        St("I enter the username from config", ""),
        St("I enter the password from config", ""),
        St("I click on login button", ""),
        St("User should logged in successfully", ""),
        St("the user has logged in to the admin console", ""),
        St("I navigate to the admin console dashboard", ""),
        St("I run the lighthouse accessibility audit on the current page", ""),
        St("the accessibility score should be over {int}%", "80") >> >>

StepDefs ==
  { "I run the lighthouse accessibility audit on the current page",
    "the accessibility score should be over {int}%",
    "the user has logged in to the admin console",
    "I navigate to the server info section",
    "I should be able to view the server information",
    "I should see the Keycloak version details",
    "I should see the server status information",
    "I navigate to realm settings",
    "I should see the realm configuration options",
    "I should be able to view general settings",
    "I navigate to users section",
    "I should see the users management page",
    "I should be able to view the users list",
    "User navigates to the application",
    "I enter the username as {string}",
    "I enter the password as {string}",
    "I enter the username from config",
    "I enter the password from config",
    "I click on login button",
    "User should logged in successfully",
    "I should see an error message",
    "Logout from the application" }

----------------------------------------------------------------------------
(* loadConfig *)

EnvValues == {"", "local", "dev", "qa"}
FileNames == {"local", "dev"}
FileStates == {"missing", "malformed", "ok"}

\* the triple stored in a well-formed config/<name>.json
Triple(name) ==
  IF name = "local"
  THEN [baseUrl |-> "https://localhost:8443/", username |-> "admin",
        password |-> "admin"]
  ELSE [baseUrl |-> "https://kc.example.org/", username |-> "root",
        password |-> "s3cret"]

existsSync(f, name) == name \in DOMAIN f /\ f[name] # "missing"

\* JSON.parse(fs.readFileSync(path)): raises on a missing or malformed file
ReadParse(f, name) ==
  IF ~existsSync(f, name) THEN [ok |-> FALSE, err |-> "ENOENT"]
  ELSE IF f[name] = "malformed" THEN [ok |-> FALSE, err |-> "SyntaxError"]
  ELSE [ok |-> TRUE, value |-> Triple(name)]

\* variant: no fallback to local.json
loadConfig_NoFallback(e, f) ==
  LET env == IF e = "" THEN "local" ELSE e IN ReadParse(f, env)

\* variant: local.json is read whatever NODE_ENV says
loadConfig_AlwaysLocal(e, f) == ReadParse(f, "local")

\* variant: a file that cannot be parsed falls back to local.json
loadConfig_FallbackOnParseError(e, f) ==
  LET env == IF e = "" THEN "local" ELSE e
  IN  IF existsSync(f, env) /\ f[env] # "malformed" THEN ReadParse(f, env)
      ELSE ReadParse(f, "local")

loadConfig(e, f) ==
  LET env == IF e = "" THEN "local" ELSE e
  IN  IF existsSync(f, env) THEN ReadParse(f, env) ELSE ReadParse(f, "local")

\* loadConfig of the Lighthouse audit tests
loadConfigLighthouse(e, f) ==
  LET env == IF e = "" THEN "local" ELSE e
  IN  IF existsSync(f, env) THEN ReadParse(f, env) ELSE ReadParse(f, "local")

\* loadConfig of the end-to-end tests: the fallback is example.json
loadConfigE2E(e, f) ==
  LET env == IF e = "" THEN "local" ELSE e
  IN  IF existsSync(f, env) THEN ReadParse(f, env)
      ELSE ReadParse(f, "example")

----------------------------------------------------------------------------
(* CustomWorld *)

Kinds == {"browser", "context", "page"}

NoConfig == [baseUrl |-> "", username |-> "", password |-> ""]

\* class CustomWorld: every field is initialised to null
\* (accessibilityScore is a property the audit step adds: undefined until then)
NewWorld ==
  [browser |-> "null", context |-> "null", page |-> "null",
   config |-> NoConfig, hasConfig |-> FALSE,
   accessibilityScore |-> 0, hasScore |-> FALSE]

NoRes == [browser |-> "none", context |-> "none", page |-> "none"]

Ev(e, i, s) == [ev |-> e, idx |-> i, status |-> s]

----------------------------------------------------------------------------
(* The page as the steps observe it *)

Bases == {"localhost:8443", "kc.example.org"}

Paths == {"auth", "login-actions", "logout", "account", "console",
          "server-info", "realm-settings", "users", "admin-realms"}

\* the address of the page: https://<base>/<path>, where the path is one of
\*   auth            realms/master/protocol/openid-connect/auth?...
\*   login-actions   realms/master/login-actions/authenticate?...
\*   logout          realms/master/protocol/openid-connect/logout
\*   account         realms/master/account
\*   console         admin/master/console/
\*   server-info     admin/master/console/#/server-info   (and the two below)
\*   admin-realms    admin/realms
Urls == [base : Bases, path : Paths]

ConsolePaths == {"console", "server-info", "realm-settings", "users"}

\* String.prototype.includes / toContain / toMatch on such an address, for
\* the needles the steps use
Includes(u, needle) ==
  CASE needle = "/admin/master/console" -> u.path \in ConsolePaths
    [] needle = "localhost:8443/admin" ->
         u.base = "localhost:8443" /\ u.path \in ConsolePaths \cup {"admin-realms"}
    [] needle = "/protocol/openid-connect/auth" -> u.path = "auth"
    [] needle = "/login-actions/authenticate" -> u.path = "login-actions"
    [] needle = "/realms/master/protocol/openid-connect/logout" ->
         u.path = "logout"
    [] needle = "/realms/master/" ->
         u.path \in {"auth", "login-actions", "logout", "account"}
    [] needle = "server-info" -> u.path = "server-info"
    [] needle = "realm-settings" -> u.path = "realm-settings"
    [] needle = "users" -> u.path = "users"

\* how a wait with a timeout ends: quickly, just within its timeout, or not
Waits == {"fast", "slow", "timeout"}

Met(w) == w # "timeout"

FastMs == 1000

\* the time a wait with timeout T takes
Took(w, T) ==
  CASE w = "fast" -> FastMs [] w = "slow" -> T - FastMs [] w = "timeout" -> T

\* what the auditing engine returns: it raises, or measures a score
AuditOutcomes == {"raise", "79", "80", "81", "90"}

\* the decimal literals of the model
ToInt(str) ==
  CASE str = "79" -> 79 [] str = "80" -> 80 [] str = "81" -> 81
    [] str = "85" -> 85 [] str = "90" -> 90 [] str = "100" -> 100

\* the observations one execution of a step makes: the outcome of its
\* first, second and third wait, of its page actions (click, fill, goto,
\* textContent) on the main and on the fallback path, the address read by
\* page.url(), whether the looked-for text or element is there, what the
\* auditing engine does when it reaches a browser, the clock ticks between
\* two reads of Date.now(), and the browser behind this.browser
Obs(W1, W2, W3, A1, A2, U, F, AU, DT, BR) ==
  [w1 : W1, w2 : W2, w3 : W3, act : A1, act2 : A2, url : U, found : F,
   audit : AU, dt : DT, br : BR]

AnyUrl == [base |-> "localhost:8443", path |-> "console"]

\* a browser launched without --remote-debugging-port listens on no port
NoPort == 0

\* chromium.launch({ headless: false }) of Before
Launched == {[engine |-> "chromium", port |-> NoPort]}

----------------------------------------------------------------------------
(* The step definitions *)

\* the result of executing the body of a step definition
Res(ok, err, el, to, caught, w, filled, stt, nnc) ==
  [ok |-> ok, err |-> err, elapsed |-> el, timedOut |-> to,
   caught |-> caught, world |-> w, filled |-> filled, state |-> stt,
   nonce |-> nnc]

Passed(el, to, caught, w) == Res(TRUE, "none", el, to, caught, w, "", 0, 0)

Raised(err, el, to, caught, w) == Res(FALSE, err, el, to, caught, w, "", 0, 0)

\* Given('User navigates to the application')
NavigateToApplication(w, o, t) ==
  IF ~w.hasConfig THEN Raised("Configuration not loaded", 0, FALSE, FALSE, w)
  ELSE IF ~Met(o.w1)
       THEN Raised("TimeoutError", Took(o.w1, 30000), TRUE, FALSE, w)
  ELSE IF ~Met(o.w2)
       THEN Raised("TimeoutError", Took(o.w1, 30000) + Took(o.w2, 10000),
                   TRUE, FALSE, w)
  ELSE Res(TRUE, "none", Took(o.w1, 30000) + Took(o.w2, 10000), FALSE, FALSE,
           w, "", t, t + o.dt)

\* variant: the username step also takes "password" for a placeholder
ActualUsername_AnyPlaceholder(username, config) ==
  IF username \in {"admin", "password"} THEN config.username ELSE username

\* const actualUsername = username === 'admin' ? this.config.username : username
ActualUsername(username, config) ==
  IF username = "admin" THEN config.username ELSE username

\* const actualPassword = password === 'password' ? this.config.password : password
ActualPassword(password, config) ==
  IF password = "password" THEN config.password ELSE password

\* the common body of the four credential steps: wait for the field, click,
\* clear, fill
FillField(w, o, value) ==
  IF ~w.hasConfig THEN Raised("Configuration not loaded", 0, FALSE, FALSE, w)
  ELSE IF ~Met(o.w1)
       THEN Raised("TimeoutError", Took(o.w1, 10000), TRUE, FALSE, w)
  ELSE IF ~o.act
       THEN Raised("ActionError", Took(o.w1, 10000), FALSE, FALSE, w)
  ELSE Res(TRUE, "none", Took(o.w1, 10000), FALSE, FALSE, w, value, 0, 0)

\* When('I enter the username as {string}')
EnterUsernameAs(w, o, username) ==
  FillField(w, o, ActualUsername(username, w.config))

\* When('I enter the password as {string}')
EnterPasswordAs(w, o, password) ==
  FillField(w, o, ActualPassword(password, w.config))

\* When('I enter the username from config')
EnterUsernameFromConfig(w, o) == FillField(w, o, w.config.username)

\* When('I enter the password from config')
EnterPasswordFromConfig(w, o) == FillField(w, o, w.config.password)

\* When('I click on login button')
ClickLogin(w, o) ==
  IF ~Met(o.w1)
  THEN Raised("TimeoutError", Took(o.w1, 10000), TRUE, FALSE, w)
  ELSE IF ~o.act
       THEN Raised("ActionError", Took(o.w1, 10000), FALSE, FALSE, w)
  ELSE Passed(Took(o.w1, 10000), FALSE, FALSE, w)

\* the catch block of 'User should logged in successfully', entered after
\* el milliseconds
LoggedInFallback(w, o, el, to) ==
  IF Includes(o.url, "/admin/master/console")
  THEN Passed(el, to, TRUE, w)
  ELSE IF \/ Includes(o.url, "/protocol/openid-connect/auth")
          \/ Includes(o.url, "/login-actions/authenticate")
       THEN Raised("AssertionError", el, to, TRUE, w)
  ELSE \* waitForSelector in a try whose catch asserts what already holds
       Passed(el + Took(o.w3, 10000), to \/ ~Met(o.w3), TRUE, w)

\* variant: the failed toMatch(/localhost:8443\/admin/) is not caught
LoggedInSuccessfully_NoCatch(w, o) ==
  IF ~Met(o.w1) THEN LoggedInFallback(w, o, Took(o.w1, 25000), TRUE)
  ELSE IF ~Met(o.w2)
       THEN LoggedInFallback(w, o, Took(o.w1, 25000) + Took(o.w2, 20000),
                             TRUE)
  ELSE IF Includes(o.url, "localhost:8443/admin")
       THEN Passed(Took(o.w1, 25000) + Took(o.w2, 20000), FALSE, FALSE, w)
  ELSE Raised("AssertionError", Took(o.w1, 25000) + Took(o.w2, 20000),
              FALSE, FALSE, w)

\* Then('User should logged in successfully')
LoggedInSuccessfully(w, o) ==
  IF ~Met(o.w1) THEN LoggedInFallback(w, o, Took(o.w1, 25000), TRUE)
  ELSE IF ~Met(o.w2)
       THEN LoggedInFallback(w, o, Took(o.w1, 25000) + Took(o.w2, 20000),
                             TRUE)
  ELSE IF Includes(o.url, "localhost:8443/admin")
       THEN Passed(Took(o.w1, 25000) + Took(o.w2, 20000), FALSE, FALSE, w)
  ELSE LoggedInFallback(w, o, Took(o.w1, 25000) + Took(o.w2, 20000), FALSE)

\* Then('I should see an error message')
SeeErrorMessage(w, o) ==
  IF ~Met(o.w1)
  THEN Raised("TimeoutError", Took(o.w1, 10000), TRUE, FALSE, w)
  ELSE IF ~o.act
       THEN Raised("ActionError", Took(o.w1, 10000), FALSE, FALSE, w)
  ELSE IF \/ Includes(o.url, "/protocol/openid-connect/auth")
          \/ Includes(o.url, "/login-actions/authenticate")
          \/ (Includes(o.url, "/realms/master/") /\
              ~Includes(o.url, "/admin/master/console"))
       THEN Passed(Took(o.w1, 10000), FALSE, FALSE, w)
  ELSE Raised("AssertionError", Took(o.w1, 10000), FALSE, FALSE, w)

\* Then('Logout from the application'): the whole body is in a try whose
\* catch only logs
Logout(w, o) ==
  IF ~Met(o.w1) THEN Passed(Took(o.w1, 10000), TRUE, TRUE, w)
  ELSE IF ~o.act THEN Passed(Took(o.w1, 10000), FALSE, TRUE, w)
  ELSE IF ~Met(o.w2)
       THEN Passed(Took(o.w1, 10000) + Took(o.w2, 5000), TRUE, TRUE, w)
  ELSE IF ~o.act2
       THEN Passed(Took(o.w1, 10000) + Took(o.w2, 5000), FALSE, TRUE, w)
  ELSE Passed(Took(o.w1, 10000) + Took(o.w2, 5000) + Took(o.w3, 10000),
              ~Met(o.w3), ~Met(o.w3), w)

\* the fallback score stored when the auditing engine raises
FallbackScore == 85

\* the score stored without an audit when the browser is not Chromium
SkippedScore == 100

\* thresholds: { accessibility: 80 }: the engine call raises on a lower score
AuditThreshold == 80

\* this.browser.browserType().name()
BrowserName(o) == o.br.engine

\* port: 9226 of the playAudit call
AuditPort == 9226

\* the engine connects to the browser listening on AuditPort: without one
\* the call raises, with one it raises or measures a score
EngineResult(o) == IF o.br.port = AuditPort THEN o.audit ELSE "raise"

WithScore(w, n) == [w EXCEPT !.accessibilityScore = n, !.hasScore = TRUE]

\* the result of the audit step, with whether playAudit was called
Audited(r, called) == r @@ [invoked |-> called]

\* variant: the error of the auditing engine is not caught
RunAccessibilityAudit_Rethrow(w, o) ==
  IF w.browser = "null"
  THEN Audited(Raised("Browser not available", 0, FALSE, FALSE, w), FALSE)
  ELSE IF BrowserName(o) # "chromium"
       THEN Audited(Passed(0, FALSE, FALSE, WithScore(w, SkippedScore)),
                    FALSE)
  ELSE IF \/ EngineResult(o) = "raise"
          \/ ToInt(EngineResult(o)) < AuditThreshold
       THEN Audited(Raised("AuditError", 0, FALSE, FALSE, w), TRUE)
  ELSE Audited(Passed(0, FALSE, FALSE,
                      WithScore(w, ToInt(EngineResult(o)))), TRUE)

\* Then('I run the lighthouse accessibility audit on the current page')
RunAccessibilityAudit(w, o) ==
  IF w.browser = "null"
  THEN Audited(Raised("Browser not available", 0, FALSE, FALSE, w), FALSE)
  ELSE IF BrowserName(o) # "chromium"
       THEN Audited(Passed(0, FALSE, FALSE, WithScore(w, SkippedScore)),
                    FALSE)
  ELSE IF \/ EngineResult(o) = "raise"
          \/ ToInt(EngineResult(o)) < AuditThreshold
       THEN Audited(Passed(0, FALSE, TRUE, WithScore(w, FallbackScore)),
                    TRUE)
  ELSE Audited(Passed(0, FALSE, FALSE,
                      WithScore(w, ToInt(EngineResult(o)))), TRUE)

\* variant: greater-than-or-equal instead of greater-than
ScoreShouldBeOver_AtLeast(w, expectedScore) ==
  IF ~w.hasScore
  THEN Raised("Accessibility score not available", 0, FALSE, FALSE, w)
  ELSE IF w.accessibilityScore >= expectedScore
       THEN Passed(0, FALSE, FALSE, w)
  ELSE Raised("AssertionError", 0, FALSE, FALSE, w)

\* Then('the accessibility score should be over {int}%')
ScoreShouldBeOver(w, expectedScore) ==
  IF ~w.hasScore
  THEN Raised("Accessibility score not available", 0, FALSE, FALSE, w)
  ELSE IF w.accessibilityScore > expectedScore
       THEN Passed(0, FALSE, FALSE, w)
  ELSE Raised("AssertionError", 0, FALSE, FALSE, w)

\* Given('the user has logged in to the admin console')
HasLoggedIn(w, o) ==
  IF Includes(o.url, "/admin/master/console")
  THEN Passed(0, FALSE, FALSE, w)
  ELSE Raised("AssertionError", 0, FALSE, FALSE, w)

\* When('I navigate to the server info section' / 'realm settings' /
\* 'users section'): click the link and wait for the address, else goto
NavigateToSection(w, o) ==
  LET fallback(el, to) ==
        IF o.act2 THEN Passed(el, to, TRUE, w)
        ELSE Raised("NavigationError", el, to, TRUE, w)
  IN  IF ~Met(o.w1) THEN fallback(Took(o.w1, 15000), TRUE)
      ELSE IF ~o.act THEN fallback(Took(o.w1, 15000), FALSE)
      ELSE IF ~Met(o.w2)
           THEN fallback(Took(o.w1, 15000) + Took(o.w2, 10000), TRUE)
      ELSE Passed(Took(o.w1, 15000) + Took(o.w2, 10000), FALSE, FALSE, w)

\* Then('I should be able to view the server information' / 'I should see
\* the realm configuration options'): the address must name the section;
\* the content wait falls back to a wait for network idle
ViewSection(w, o, key) ==
  IF ~Includes(o.url, key) THEN Raised("AssertionError", 0, FALSE, FALSE, w)
  ELSE IF Met(o.w1) THEN Passed(Took(o.w1, 10000), FALSE, FALSE, w)
  ELSE IF ~Met(o.w2)
       THEN Raised("TimeoutError", Took(o.w1, 10000) + Took(o.w2, 10000),
                   TRUE, TRUE, w)
  ELSE Passed(Took(o.w1, 10000) + Took(o.w2, 10000), TRUE, TRUE, w)

\* Then('I should see the Keycloak version details')
SeeVersionDetails(w, o) ==
  IF Met(o.w1) /\ o.act /\ o.found
  THEN Passed(Took(o.w1, 10000), FALSE, FALSE, w)
  ELSE IF ~o.act2
       THEN Raised("ActionError", Took(o.w1, 10000), ~Met(o.w1), TRUE, w)
  ELSE IF o.found THEN Passed(Took(o.w1, 10000), ~Met(o.w1), TRUE, w)
  ELSE Raised("AssertionError", Took(o.w1, 10000), ~Met(o.w1), TRUE, w)

\* Then('I should see the server status information' / 'I should be able to
\* view the users list'): when the wait fails, the address naming the
\* section is enough
SeeOrOnSection(w, o, key) ==
  IF Met(o.w1) /\ o.act THEN Passed(Took(o.w1, 10000), FALSE, FALSE, w)
  ELSE IF Includes(o.url, key)
       THEN Passed(Took(o.w1, 10000), ~Met(o.w1), TRUE, w)
  ELSE Raised("AssertionError", Took(o.w1, 10000), ~Met(o.w1), TRUE, w)

\* Then('I should be able to view general settings'): the catch only logs
ViewGeneralSettings(w, o) ==
  IF Met(o.w1) THEN Passed(Took(o.w1, 10000), FALSE, FALSE, w)
  ELSE Passed(Took(o.w1, 10000), TRUE, TRUE, w)

\* Then('I should see the users management page')
SeeUsersPage(w, o) ==
  IF ~Includes(o.url, "users") THEN Raised("AssertionError", 0, FALSE, FALSE, w)
  ELSE IF ~Met(o.w1)
       THEN Raised("TimeoutError", Took(o.w1, 10000), TRUE, FALSE, w)
  ELSE Passed(Took(o.w1, 10000), FALSE, FALSE, w)

\* the body registered for a step text, applied to the world, the step's
\* argument, what it observes and the clock
StepBody(d, arg, w, o, t) ==
  CASE d = "User navigates to the application" -> NavigateToApplication(w, o, t)
    [] d = "I enter the username as {string}" -> EnterUsernameAs(w, o, arg)
    [] d = "I enter the password as {string}" -> EnterPasswordAs(w, o, arg)
    [] d = "I enter the username from config" -> EnterUsernameFromConfig(w, o)
    [] d = "I enter the password from config" -> EnterPasswordFromConfig(w, o)
    [] d = "I click on login button" -> ClickLogin(w, o)
    [] d = "User should logged in successfully" -> LoggedInSuccessfully(w, o)
    [] d = "I should see an error message" -> SeeErrorMessage(w, o)
    [] d = "Logout from the application" -> Logout(w, o)
    [] d = "I run the lighthouse accessibility audit on the current page" ->
         RunAccessibilityAudit(w, o)
    [] d = "the accessibility score should be over {int}%" ->
         ScoreShouldBeOver(w, ToInt(arg))
    [] d = "the user has logged in to the admin console" -> HasLoggedIn(w, o)
    [] d = "I navigate to the server info section" -> NavigateToSection(w, o)
    [] d = "I navigate to realm settings" -> NavigateToSection(w, o)
    [] d = "I navigate to users section" -> NavigateToSection(w, o)
    [] d = "I should be able to view the server information" ->
         ViewSection(w, o, "server-info")
    [] d = "I should see the realm configuration options" ->
         ViewSection(w, o, "realm-settings")
    [] d = "I should see the Keycloak version details" ->
         SeeVersionDetails(w, o)
    [] d = "I should see the server status information" ->
         SeeOrOnSection(w, o, "server-info")
    [] d = "I should be able to view the users list" ->
         SeeOrOnSection(w, o, "users")
    [] d = "I should be able to view general settings" ->
         ViewGeneralSettings(w, o)
    [] d = "I should see the users management page" -> SeeUsersPage(w, o)

B == BOOLEAN

\* what the body of a step definition can observe (the fields it does not
\* read are held fixed)
StepInputs(d) ==
  CASE d = "User navigates to the application" ->
         Obs(Waits, Waits, {"fast"}, {TRUE}, {TRUE}, {AnyUrl}, {TRUE},
             {"raise"}, {0, 1},
             Launched)
    [] d \in {"I enter the username as {string}",
              "I enter the password as {string}",
              "I enter the username from config",
              "I enter the password from config",
              "I click on login button"} ->
         Obs(Waits, {"fast"}, {"fast"}, B, {TRUE}, {AnyUrl}, {TRUE},
             {"raise"}, {0},
             Launched)
    [] d = "User should logged in successfully" ->
         Obs(Waits, Waits, Waits, {TRUE}, {TRUE}, Urls, {TRUE}, {"raise"},
             {0},
             Launched)
    [] d = "I should see an error message" ->
         Obs(Waits, {"fast"}, {"fast"}, B, {TRUE}, Urls, {TRUE}, {"raise"},
             {0},
             Launched)
    [] d = "Logout from the application" ->
         Obs(Waits, Waits, Waits, B, B, {AnyUrl}, {TRUE}, {"raise"}, {0},
             Launched)
    [] d = "I run the lighthouse accessibility audit on the current page" ->
         Obs({"fast"}, {"fast"}, {"fast"}, {TRUE}, {TRUE}, {AnyUrl}, {TRUE},
             AuditOutcomes, {0},
             Launched)
    [] d = "the accessibility score should be over {int}%" ->
         Obs({"fast"}, {"fast"}, {"fast"}, {TRUE}, {TRUE}, {AnyUrl}, {TRUE},
             {"raise"}, {0},
             Launched)
    [] d = "the user has logged in to the admin console" ->
         Obs({"fast"}, {"fast"}, {"fast"}, {TRUE}, {TRUE}, Urls, {TRUE},
             {"raise"}, {0},
             Launched)
    [] d \in {"I navigate to the server info section",
              "I navigate to realm settings",
              "I navigate to users section"} ->
         Obs(Waits, Waits, {"fast"}, B, B, {AnyUrl}, {TRUE}, {"raise"}, {0},
             Launched)
    [] d \in {"I should be able to view the server information",
              "I should see the realm configuration options"} ->
         Obs(Waits, Waits, {"fast"}, {TRUE}, {TRUE}, Urls, {TRUE}, {"raise"},
             {0},
             Launched)
    [] d = "I should see the Keycloak version details" ->
         Obs(Waits, {"fast"}, {"fast"}, B, B, {AnyUrl}, B, {"raise"}, {0},
             Launched)
    [] d \in {"I should see the server status information",
              "I should be able to view the users list"} ->
         Obs(Waits, {"fast"}, {"fast"}, B, {TRUE}, Urls, {TRUE}, {"raise"},
             {0},
             Launched)
    [] d \in {"I should be able to view general settings",
              "I should see the users management page"} ->
         Obs(Waits, {"fast"}, {"fast"}, {TRUE}, {TRUE}, Urls, {TRUE},
             {"raise"}, {0},
             Launched)

\* the timeout a step definition is registered with; the definitions that
\* give none run under the profile's timeout: 30000
StepTimeout(d) ==
  CASE d = "I run the lighthouse accessibility audit on the current page" ->
         60000
    [] d \in {"User should logged in successfully"} -> 30000
    [] d \in {"Logout from the application",
              "I navigate to the server info section",
              "I navigate to realm settings",
              "I navigate to users section"} -> 20000
    [] d \in {"I should see an error message",
              "I should be able to view the server information",
              "I should see the Keycloak version details",
              "I should see the server status information",
              "I should see the realm configuration options",
              "I should be able to view general settings",
              "I should see the users management page",
              "I should be able to view the users list"} -> 15000
    [] OTHER -> 30000

\* the status the runner gives an executed step: failed when the body
\* raised, or when it had not returned within the step's timeout
StatusOf(d, r) ==
  IF r.ok /\ r.elapsed <= StepTimeout(d) THEN "passed" ELSE "failed"

----------------------------------------------------------------------------
(* The runner: one scenario at a time, one world per attempt *)

Scenario == Feature[scn]

\* severity order of the runner's step statuses (worst result of an attempt)
Severity(s) ==
  CASE s = "passed" -> 1 [] s = "skipped" -> 2 [] s = "undefined" -> 3
    [] s = "failed" -> 4

Worst(a, b) == IF Severity(a) >= Severity(b) THEN a ELSE b

\* the executions of a step definition on a world: one per observation
Executions(st, w, t) ==
  {StepBody(st.def, st.arg, w, o, t) : o \in StepInputs(st.def)}

\* variant: the runner keeps executing steps after one has failed
StepResults_NoSkip(st, w, worst, t) ==
  IF st.def \notin StepDefs THEN {[status |-> "undefined", world |-> w]}
  ELSE {[status |-> StatusOf(st.def, r), world |-> r.world] :
           r \in Executions(st, w, t)}

\* what the runner can make of a step: undefined when no definition
\* matches, skipped once the attempt is no longer passing, else executed,
\* with the status and the world its body ends with
StepResults(st, w, worst, t) ==
  IF st.def \notin StepDefs THEN {[status |-> "undefined", world |-> w]}
  ELSE IF worst # "passed" THEN {[status |-> "skipped", world |-> w]}
  ELSE {[status |-> StatusOf(st.def, r), world |-> r.world] :
           r \in Executions(st, w, t)}

NoCall == [def |-> ""]

\* reports/lighthouse with no file in it
NoReports == <<>>

Init ==
  /\ profile \in Profiles
  /\ nodeEnv \in EnvValues
  /\ files \in [FileNames -> FileStates]
  /\ scn = 1 /\ attempt = 1 /\ pc = "new" /\ stepIdx = 1
  /\ result = "passed"
  /\ world = NewWorld /\ wid = 0 /\ res = NoRes /\ leaked = 0
  /\ phase = "UNINITIALIZED"
  /\ events = <<>> /\ acqLog = <<>> /\ closeLog = <<>>
  /\ beforeErr = FALSE /\ afterErr = FALSE /\ afterCalls = 0
  /\ beforeRuns = 0 /\ afterRuns = 0
  /\ call = NoCall /\ now = 0 /\ issued = <<>> /\ reports = NoReports

\* variant: the attempt gets the world object of the attempt before it
ConstructWorld_KeepWorld ==
  /\ pc = "new"
  /\ world' = world /\ wid' = wid + 1 /\ res' = NoRes
  /\ phase' = "UNINITIALIZED"
  /\ events' = <<>> /\ acqLog' = <<>> /\ closeLog' = <<>>
  /\ beforeErr' = FALSE /\ afterErr' = FALSE /\ afterCalls' = 0
  /\ stepIdx' = 1 /\ result' = "passed"
  /\ pc' = "before"
  /\ UNCHANGED <<harness, profile, nodeEnv, files, scn, attempt, leaked,
                 beforeRuns, afterRuns>>

\* setWorldConstructor(CustomWorld): the runner constructs the world of an
\* attempt before it runs the attempt's hooks and steps
ConstructWorld ==
  /\ pc = "new"
  /\ world' = NewWorld /\ wid' = wid + 1 /\ res' = NoRes
  /\ phase' = "UNINITIALIZED"
  /\ events' = <<>> /\ acqLog' = <<>> /\ closeLog' = <<>>
  /\ beforeErr' = FALSE /\ afterErr' = FALSE /\ afterCalls' = 0
  /\ stepIdx' = 1 /\ result' = "passed"
  /\ pc' = "before"
  /\ UNCHANGED <<harness, profile, nodeEnv, files, scn, attempt, leaked, beforeRuns,
                 afterRuns>>

\* the runner invokes the Before hook
InvokeBefore ==
  /\ pc = "before"
  /\ events' = Append(events, Ev("Before", 0, "run"))
  /\ beforeRuns' = beforeRuns + 1
  /\ pc' = "loadConfig"
  /\ UNCHANGED <<harness, profile, nodeEnv, files, scn, attempt, stepIdx, result,
                 world, wid, res, leaked, phase, acqLog, closeLog, beforeErr,
                 afterErr, afterCalls, afterRuns>>

\* an exception leaves Before: the hook fails, the attempt is failed
BeforeRaises ==
  /\ beforeErr' = TRUE
  /\ result' = "failed"
  /\ pc' = "step"

\* this.config = loadConfig()
BeforeLoadConfig ==
  /\ pc = "loadConfig"
  /\ LET r == loadConfig(nodeEnv, files)
     IN  IF r.ok
         THEN /\ world' = [world EXCEPT !.config = r.value,
                                        !.hasConfig = TRUE]
              /\ pc' = "launch"
              /\ UNCHANGED <<beforeErr, result>>
         ELSE /\ BeforeRaises
              /\ UNCHANGED world
  /\ UNCHANGED <<harness, profile, nodeEnv, files, scn, attempt, stepIdx, wid, res,
                 leaked, phase, events, acqLog, closeLog, afterErr,
                 afterCalls, beforeRuns, afterRuns>>

\* this.<k> = await <acquisition>: on success the handle is stored, on
\* failure the exception leaves Before at once
Acquire(k, here, next, ready) ==
  /\ pc = here
  /\ \E ok \in BOOLEAN :
       IF ok
       THEN /\ world' = [world EXCEPT ![k] = "set"]
            /\ res' = [res EXCEPT ![k] = "open"]
            /\ acqLog' = Append(acqLog, k)
            /\ pc' = next
            /\ phase' = IF ready THEN "READY" ELSE phase
            /\ UNCHANGED <<beforeErr, result>>
       ELSE /\ BeforeRaises
            /\ UNCHANGED <<world, res, acqLog, phase>>
  /\ UNCHANGED <<harness, profile, nodeEnv, files, scn, attempt, stepIdx, wid, leaked,
                 events, closeLog, afterErr, afterCalls, beforeRuns,
                 afterRuns>>

BeforeLaunch == Acquire("browser", "launch", "newContext", FALSE)

BeforeNewContext == Acquire("context", "newContext", "newPage", FALSE)

BeforeNewPage == Acquire("page", "newPage", "step", TRUE)

\* the runner visits the next step of the scenario
RunStep ==
  /\ pc = "step"
  /\ stepIdx <= Len(Scenario)
  /\ \E r \in StepResults(Scenario[stepIdx], world, result, now) :
       /\ events' = Append(events, Ev("Step", stepIdx, r.status))
       /\ result' = Worst(result, r.status)
       /\ world' = r.world
  /\ stepIdx' = stepIdx + 1
  /\ UNCHANGED <<harness, profile, nodeEnv, files, scn, attempt, pc, wid, res,
                 leaked, phase, acqLog, closeLog, beforeErr, afterErr,
                 afterCalls, beforeRuns, afterRuns>>

\* the runner invokes the After hook once every step was visited
InvokeAfter ==
  /\ pc = "step"
  /\ stepIdx > Len(Scenario)
  /\ events' = Append(events, Ev("After", 0, "run"))
  /\ afterRuns' = afterRuns + 1
  /\ afterCalls' = afterCalls + 1
  /\ pc' = "after1"
  /\ UNCHANGED <<harness, profile, nodeEnv, files, scn, attempt, stepIdx, result,
                 world, wid, res, leaked, phase, acqLog, closeLog, beforeErr,
                 afterErr, beforeRuns>>

\* variant: After closes the handles in acquisition order
AfterOrder_Forward == <<"browser", "context", "page">>

\* the order in which After closes the handles
AfterOrder == <<"page", "context", "browser">>

\* variant: the null check of After dropped
HandlePresent_Always(w, k) == TRUE

\* if (this.<k>)
HandlePresent(w, k) == w[k] # "null"

\* if (this.<k>) await this.<k>.close(): the i-th statement of After.  A
\* close that raises leaves After at once; the handle it was called on is
\* not released.
AfterClose(i, here, next) ==
  LET k == AfterOrder[i] IN
  /\ pc = here
  /\ IF HandlePresent(world, k)
     THEN IF world[k] = "null"
          THEN \* a method call on null raises a TypeError
               /\ afterErr' = TRUE /\ result' = "failed"
               /\ pc' = "end" /\ phase' = "TORN_DOWN"
               /\ UNCHANGED <<closeLog, res>>
          ELSE \E ok \in BOOLEAN :
               /\ closeLog' = Append(closeLog, k)
               /\ IF ok
                  THEN /\ res' = [res EXCEPT ![k] = "closed"]
                       /\ pc' = next
                       /\ phase' = IF next = "end" THEN "TORN_DOWN"
                                   ELSE phase
                       /\ UNCHANGED <<afterErr, result>>
                  ELSE /\ afterErr' = TRUE /\ result' = "failed"
                       /\ pc' = "end" /\ phase' = "TORN_DOWN"
                       /\ UNCHANGED res
     ELSE /\ pc' = next
          /\ phase' = IF next = "end" THEN "TORN_DOWN" ELSE phase
          /\ UNCHANGED <<closeLog, res, afterErr, result>>
  /\ UNCHANGED <<harness, profile, nodeEnv, files, scn, attempt, stepIdx, world, wid,
                 leaked, events, acqLog, beforeErr, afterCalls, beforeRuns,
                 afterRuns>>

AfterFirst == AfterClose(1, "after1", "after2")

AfterSecond == AfterClose(2, "after2", "after3")

AfterThird == AfterClose(3, "after3", "end")

\* the browsers that stay open when the runner drops the world
StillOpen == IF res.browser = "open" THEN 1 ELSE 0

\* variant: the retry attempt runs on the world of the failed attempt
RetryAttempt_ReuseWorld ==
  /\ pc = "end"
  /\ result = "failed" /\ attempt < 1 + Retry(profile)
  /\ attempt' = attempt + 1
  /\ stepIdx' = 1 /\ result' = "passed"
  /\ beforeErr' = FALSE /\ afterErr' = FALSE
  /\ pc' = "before"
  /\ UNCHANGED <<harness, profile, nodeEnv, files, scn, world, wid, res, leaked,
                 phase, events, acqLog, closeLog, afterCalls, beforeRuns,
                 afterRuns>>

\* retry: a failed attempt is run again while attempts remain
RetryAttempt ==
  /\ pc = "end"
  /\ result = "failed" /\ attempt < 1 + Retry(profile)
  /\ attempt' = attempt + 1
  /\ leaked' = leaked + StillOpen
  /\ pc' = "new"
  /\ UNCHANGED <<harness, profile, nodeEnv, files, scn, stepIdx, result, world, wid,
                 res, phase, events, acqLog, closeLog, beforeErr, afterErr,
                 afterCalls, beforeRuns, afterRuns>>

\* parallel: 1: the next scenario starts when this one has ended
NextScenario ==
  /\ pc = "end"
  /\ ~(result = "failed" /\ attempt < 1 + Retry(profile))
  /\ scn < Len(Feature)
  /\ scn' = scn + 1 /\ attempt' = 1
  /\ beforeRuns' = 0 /\ afterRuns' = 0
  /\ leaked' = leaked + StillOpen
  /\ pc' = "new"
  /\ UNCHANGED <<harness, profile, nodeEnv, files, stepIdx, result, world, wid, res,
                 phase, events, acqLog, closeLog, beforeErr, afterErr,
                 afterCalls>>

Finish ==
  /\ pc = "end"
  /\ ~(result = "failed" /\ attempt < 1 + Retry(profile))
  /\ scn = Len(Feature)
  /\ pc' = "finished"
  /\ UNCHANGED <<harness, profile, nodeEnv, files, scn, attempt, stepIdx, result,
                 world, wid, res, leaked, phase, events, acqLog, closeLog,
                 beforeErr, afterErr, afterCalls, beforeRuns, afterRuns>>

Next ==
  \/ ConstructWorld
  \/ InvokeBefore
  \/ BeforeLoadConfig
  \/ BeforeLaunch
  \/ BeforeNewContext
  \/ BeforeNewPage
  \/ RunStep
  \/ InvokeAfter
  \/ AfterFirst
  \/ AfterSecond
  \/ AfterThird
  \/ RetryAttempt
  \/ NextScenario
  \/ Finish

Spec == Init /\ [][Next]_vars

\* After called again on a world it has already torn down (the hook called
\* directly, as a function of the world)
ReinvokeAfter ==
  /\ pc = "end"
  /\ afterCalls < 1 + MaxReinvoke
  /\ afterCalls' = afterCalls + 1
  /\ afterErr' = FALSE
  /\ pc' = "after1"
  /\ UNCHANGED <<harness, profile, nodeEnv, files, scn, attempt, stepIdx, result,
                 world, wid, res, leaked, phase, events, acqLog, closeLog,
                 beforeErr, beforeRuns, afterRuns>>

NextDirect == Next \/ ReinvokeAfter

SpecDirect == Init /\ [][NextDirect]_vars

----------------------------------------------------------------------------
(* The step definitions called directly on a READY world *)

NavigateDef == "User navigates to the application"

\* the literal arguments a step definition is called with
StepArgs(d) ==
  CASE d \in {"I enter the username as {string}",
              "I enter the password as {string}"} ->
         {"admin", "password", "invaliduser", "wrongpassword"}
    [] d = "the accessibility score should be over {int}%" -> {"80", "85"}
    [] OTHER -> {""}

\* the world and the runner as a successful Before leaves them, for a
\* well-formed configuration file
InitSteps ==
  /\ profile = "default"
  /\ nodeEnv \in FileNames
  /\ files = [n \in FileNames |-> "ok"]
  /\ scn = 1 /\ attempt = 1 /\ pc = "step" /\ stepIdx = 1
  /\ result = "passed"
  /\ world = [NewWorld EXCEPT !.browser = "set", !.context = "set",
                              !.page = "set",
                              !.config = loadConfig(nodeEnv, files).value,
                              !.hasConfig = TRUE]
  /\ wid = 1 /\ leaked = 0
  /\ res = [browser |-> "open", context |-> "open", page |-> "open"]
  /\ phase = "READY"
  /\ events = <<Ev("Before", 0, "run")>>
  /\ acqLog = <<"browser", "context", "page">> /\ closeLog = <<>>
  /\ beforeErr = FALSE /\ afterErr = FALSE /\ afterCalls = 0
  /\ beforeRuns = 1 /\ afterRuns = 0
  /\ call = NoCall /\ now = 0 /\ issued = <<>> /\ reports = NoReports

\* one call of the definition of d: its body runs on the world and the
\* runner gives the step its status
StepCallOn(d, inputs) ==
  /\ pc = "step"
  /\ \E arg \in StepArgs(d), o \in inputs :
       LET r == StepBody(d, arg, world, o, now) IN
       /\ call' = [def |-> d, arg |-> arg, obs |-> o, r |-> r,
                   status |-> StatusOf(d, r), before |-> world]
       /\ world' = r.world
       /\ IF d = NavigateDef
          THEN /\ Len(issued) < MaxCalls
               /\ now + o.dt <= MaxClock
               /\ now' = now + o.dt
               /\ issued' = IF r.ok
                            THEN Append(issued, [state |-> r.state,
                                                 nonce |-> r.nonce])
                            ELSE issued
          ELSE UNCHANGED <<now, issued>>
  /\ UNCHANGED <<profile, nodeEnv, files, scn, attempt, pc, stepIdx, result,
                 wid, res, leaked, phase, events, acqLog, closeLog,
                 beforeErr, afterErr, afterCalls, beforeRuns, afterRuns,
                 reports>>

StepCall(d) == StepCallOn(d, StepInputs(d))

\* the clock advances between two calls
Tick ==
  /\ now < MaxClock
  /\ now' = now + 1
  /\ UNCHANGED <<call, issued, reports, profile, nodeEnv, files, scn,
                 attempt, pc, stepIdx, result, world, wid, res, leaked,
                 phase, events, acqLog, closeLog, beforeErr, afterErr,
                 afterCalls, beforeRuns, afterRuns>>

AuditDef == "I run the lighthouse accessibility audit on the current page"

\* a step definition called on the world as Before left it, or as audit
\* steps called before it left it
CallAnyStep ==
  /\ call.def \in {"", AuditDef}
  /\ \E d \in StepDefs \ {NavigateDef} : StepCall(d)

NextSteps == CallAnyStep

SpecSteps == InitSteps /\ [][NextSteps]_vars

CallNavigate == StepCall(NavigateDef)

NextClock == Tick \/ CallNavigate

SpecClock == InitSteps /\ [][NextClock]_vars

----------------------------------------------------------------------------
(* Vocabulary of the properties *)

AfterPcs == {"after1", "after2", "after3"}

\* the points between two hooks or steps, where the runner holds the world
AtBoundary == pc \in {"new", "before", "step", "end", "finished"}

Range(q) == {q[i] : i \in 1..Len(q)}

AcquisitionOrder == <<"browser", "context", "page">>

ReleaseOrder == <<"page", "context", "browser">>

IsPrefix(p, q) == Len(p) <= Len(q) /\ \A i \in 1..Len(p) : p[i] = q[i]

\* position of a handle in the acquisition order
AcqPos(k) == CHOOSE i \in 1..3 : AcquisitionOrder[i] = k

\* Before acquired all three handles on this world
WasReady == acqLog = AcquisitionOrder

AllAbsent(w) == \A k \in Kinds : w[k] = "null"

AllPresent(w) == \A k \in Kinds : w[k] # "null"

Count(q, e) == Cardinality({i \in 1..Len(q) : q[i].ev = e})

Executed(e) == e.ev = "Step" /\ e.status \in {"passed", "failed"}

LiveBrowsers == leaked + StillOpen

----------------------------------------------------------------------------
(* Teardown and setup of one context *)

\* C1: when After has ended on a READY context, close was attempted on each
\* of page, context and browser, whichever of the close calls raised.
C1_CascadeAttemptsAll ==
  (pc = "end" /\ WasReady) => Range(closeLog) = Kinds

\* C2: at the moment a failure leaves Before, no handle acquired by that
\* Before is still open.
C2_NothingLeftAcquired ==
  (pc = "step" /\ beforeErr /\ afterCalls = 0) =>
     \A k \in Kinds : res[k] # "open"

\* C3: at every hook or step boundary the three handles are all present or
\* all absent: all absent before setup and after teardown, all present
\* after a successful setup.
C3_AllOrNothing ==
  AtBoundary =>
     /\ AllAbsent(world) \/ AllPresent(world)
     /\ pc \in {"new", "before"} => AllAbsent(world)
     /\ phase = "READY" => AllPresent(world)
     /\ phase = "TORN_DOWN" => AllAbsent(world)

\* C4: Before acquires browser, context, page in that order; After calls
\* close in the reverse order, a close being called only when every close
\* called before it has completed, and on a READY context whose closes all
\* complete the calls are exactly page, context, browser, whether the
\* scenario passed or failed.
C4_ReverseOrder ==
  /\ IsPrefix(acqLog, AcquisitionOrder)
  /\ \A i, j \in 1..Len(closeLog) :
        i < j => /\ AcqPos(closeLog[i]) > AcqPos(closeLog[j])
                 /\ res[closeLog[i]] = "closed"
  /\ (pc = "end" /\ WasReady /\ ~afterErr) => closeLog = ReleaseOrder

C4_Witness ==
  /\ pc = "end" /\ WasReady /\ ~afterErr
  /\ result = "failed"
  /\ closeLog = ReleaseOrder
  /\ \A k \in Kinds : res[k] = "closed"

----------------------------------------------------------------------------
(* The hooks within a run *)

\* C5 as stated: Before and After each execute exactly once per scenario.
C5_OncePerScenario ==
  /\ beforeRuns <= 1 /\ afterRuns <= 1
  /\ pc = "end" => (beforeRuns = 1 /\ afterRuns = 1)

\* C5 (amended): Before and After each execute exactly once per attempt of
\* a scenario, Before first and After last with every step in between; a
\* scenario has one attempt under the html and json profiles and at most
\* two under the default profile.
C5_OncePerAttempt ==
  /\ Count(events, "Before") <= 1 /\ Count(events, "After") <= 1
  /\ \A i \in 1..Len(events) :
        /\ events[i].ev = "Before" => i = 1
        /\ events[i].ev = "Step" =>
              /\ i > 1 /\ events[1].ev = "Before"
              /\ \A j \in 1..i : events[j].ev # "After"
        /\ events[i].ev = "After" => i = Len(events) /\ i > 1
  /\ pc \in {"end", "finished"} =>
        /\ Count(events, "Before") = 1 /\ Count(events, "After") = 1
        /\ beforeRuns = attempt /\ afterRuns = attempt
  /\ beforeRuns <= attempt /\ afterRuns <= beforeRuns
  /\ attempt <= (IF profile = "default" THEN 2 ELSE 1)

C5_Witness ==
  /\ pc = "end" /\ profile = "default" /\ attempt = 2
  /\ beforeRuns = 2 /\ afterRuns = 2
  /\ \E i \in 1..Len(events) : Executed(events[i])

C7_OneLiveContext == LiveBrowsers <= 1

\* C8: a world goes UNINITIALIZED -> READY -> TORN_DOWN and never back;
\* Before is invoked only on a freshly constructed world, at most once per
\* world, for every scenario and every retry attempt.
C8_Lifecycle ==
  /\ [](pc = "before" =>
          /\ world = NewWorld /\ phase = "UNINITIALIZED"
          /\ res = NoRes /\ events = <<>> /\ afterCalls = 0)
  /\ [](Count(events, "Before") <= 1)
  /\ [][ (wid' = wid /\ phase' # phase) =>
            <<phase, phase'>> \in {<<"UNINITIALIZED", "READY">>,
                                    <<"READY", "TORN_DOWN">>,
                                    <<"UNINITIALIZED", "TORN_DOWN">>} ]_vars
  /\ [][ pc' = "loadConfig" => (pc = "before" /\ phase = "UNINITIALIZED")
       ]_vars
  /\ [][ wid' # wid => (wid' = wid + 1 /\ world' = NewWorld
                          /\ phase' = "UNINITIALIZED") ]_vars

C8_Witness ==
  /\ pc = "before" /\ attempt = 2 /\ wid = 2
  /\ world = NewWorld /\ phase = "UNINITIALIZED"

\* C9: After on a world whose handles are all null (as constructed) makes
\* no close call, raises nothing and leaves the world as it is.
C9_TeardownOfUninitialized ==
  /\ []((pc = "end" /\ acqLog = <<>>) =>
           (AllAbsent(world) /\ closeLog = <<>> /\ ~afterErr /\ res = NoRes))
  /\ [][ (pc \in AfterPcs /\ AllAbsent(world)) =>
            /\ world' = world /\ res' = res
            /\ closeLog' = closeLog /\ afterErr' = afterErr ]_vars

C9_Witness ==
  /\ pc = "end" /\ afterCalls = 1
  /\ world = NewWorld /\ phase = "TORN_DOWN"
  /\ closeLog = <<>> /\ ~afterErr

\* C10: a second invocation of After on a world already torn down makes no
\* close call, raises nothing and leaves the world and its handles as the
\* first invocation left them.
C10_TeardownIdempotent ==
  [][ (afterCalls >= 2 /\ pc \in AfterPcs) =>
         /\ closeLog' = closeLog /\ ~afterErr'
         /\ world' = world /\ res' = res ]_vars

----------------------------------------------------------------------------
(* Errors in teardown and in the steps *)

\* C11: an error raised by a close call in After never leaves the hook and
\* never changes the outcome the attempt had when After began.
C11_TeardownErrorsSwallowed ==
  [][ (pc \in AfterPcs) => (~afterErr' /\ result' = result) ]_vars

\* C12: a step one of whose waits timed out is failed, and the audit step is
\* the only one that passes after catching an error.
C12_TimeoutFailsStep ==
  call.def # "" =>
     /\ call.r.timedOut => call.status = "failed"
     /\ (call.r.caught /\ call.status = "passed") => call.def = AuditDef

LoggedInDef == "User should logged in successfully"

AuthFlow(u) ==
  \/ Includes(u, "/protocol/openid-connect/auth")
  \/ Includes(u, "/login-actions/authenticate")

\* C13: when the wait for the admin-console address timed out, the step
\* passes only if the address is not an auth-flow address and an
\* admin-indicator element was found.
C13_FallbackNeedsIndicator ==
  (call.def = LoggedInDef /\ ~Met(call.obs.w1) /\ call.status = "passed") =>
     (~AuthFlow(call.obs.url) /\ Met(call.obs.w3))

\* the body came to an end within the timeout of the step
WithinBudget == call.r.elapsed <= StepTimeout(call.def)

C15_UniquePerCall ==
  \A i, j \in 1..Len(issued) :
     i < j => /\ issued[i].state # issued[j].state
              /\ issued[i].nonce # issued[j].nonce

----------------------------------------------------------------------------
(* Credentials and configuration *)

UsernameDef == "I enter the username as {string}"

PasswordDef == "I enter the password as {string}"

\* C16: the username step fills config.username exactly for the literal
\* "admin", the password step config.password exactly for the literal
\* "password"; every other literal is filled unchanged.
C16_CredentialSubstitution ==
  /\ (call.def = UsernameDef /\ call.status = "passed") =>
        /\ call.arg = "admin" => call.r.filled = call.before.config.username
        /\ call.arg # "admin" => call.r.filled = call.arg
  /\ (call.def = PasswordDef /\ call.status = "passed") =>
        /\ call.arg = "password" =>
              call.r.filled = call.before.config.password
        /\ call.arg # "password" => call.r.filled = call.arg

C16_Witness ==
  /\ call.def = UsernameDef /\ call.status = "passed"
  /\ call.arg = "admin"
  /\ call.before.config.username = "root"
  /\ call.r.filled = "root"

\* loadConfig has returned or raised in the Before of this attempt
ConfigResolved == Len(events) >= 1 /\ pc # "loadConfig"

\* NODE_ENV is absent or empty, or names no configuration file
UnknownEnv == nodeEnv = "" \/ ~existsSync(files, nodeEnv)

\* Before raised in loadConfig: nothing was assigned or acquired
ConfigFailed ==
  beforeErr /\ ~world.hasConfig /\ acqLog = <<>> /\ res = NoRes

\* C17 as stated: for an absent, empty or unknown NODE_ENV loadConfig
\* returns the triple of local.json and does not raise, unless local.json is
\* missing, and then it raises.
C17_DefaultUnlessMissing ==
  (ConfigResolved /\ UnknownEnv) =>
     IF files["local"] = "missing" THEN ConfigFailed
     ELSE world.hasConfig /\ world.config = Triple("local")

\* C17 (amended): for an absent, empty or unknown NODE_ENV loadConfig returns
\* the triple of local.json when that file is well-formed, and raises when
\* it is missing or cannot be parsed.
C17_DefaultUnlessMissingOrMalformed ==
  (ConfigResolved /\ UnknownEnv) =>
     IF files["local"] = "ok"
     THEN world.hasConfig /\ world.config = Triple("local")
     ELSE ConfigFailed

C17_Witness ==
  /\ ConfigResolved /\ nodeEnv = "qa"
  /\ files["local"] = "ok" /\ files["dev"] = "ok"
  /\ world.hasConfig /\ world.config = Triple("local")
  /\ pc = "launch"

\* C18: when the file NODE_ENV names is well-formed, the world holds exactly
\* the triple of that file, not the one of local.json, and no step changes
\* the triple the world holds.
C18_ExactTripleKept ==
  /\ []((ConfigResolved /\ nodeEnv \in FileNames /\ files[nodeEnv] = "ok") =>
          (/\ world.hasConfig
           /\ world.config = Triple(nodeEnv)
           /\ nodeEnv # "local" => world.config # Triple("local")))
  /\ [][ (wid' = wid /\ world.hasConfig) =>
            (world'.hasConfig /\ world'.config = world.config) ]_vars

C18_Witness ==
  /\ pc = "end" /\ nodeEnv = "dev" /\ files["local"] = "ok"
  /\ world.config = Triple("dev") /\ world.config # Triple("local")
  /\ \E i \in 1..Len(events) : Executed(events[i])

\* C19: when the file NODE_ENV names exists and cannot be parsed, loadConfig
\* raises without falling back, Before fails with no handle acquired, and no
\* step of the attempt is executed.
C19_MalformedFailsSetup ==
  (ConfigResolved /\ nodeEnv \in FileNames /\ files[nodeEnv] = "malformed") =>
     /\ ConfigFailed
     /\ AllAbsent(world)
     /\ \A i \in 1..Len(events) : ~Executed(events[i])
     /\ result = "failed"

C19_Witness ==
  /\ pc = "end" /\ nodeEnv = "dev"
  /\ files["dev"] = "malformed" /\ files["local"] = "ok"
  /\ ConfigFailed
  /\ \E i \in 1..Len(events) :
        events[i].ev = "Step" /\ events[i].status = "skipped"

----------------------------------------------------------------------------
(* The score threshold *)

ScoreDef == "the accessibility score should be over {int}%"

----------------------------------------------------------------------------
(* The audit step *)

Engines == {"chromium", "firefox", "webkit"}

\* the browsers a world can hold: any engine, launched with or without
\* --remote-debugging-port=<AuditPort>
Browsers == [engine : Engines, port : {NoPort, AuditPort}]

\* the audit step called on a world whose browser is any of these
AuditOnAnyBrowser ==
  StepCallOn(AuditDef,
             {[o EXCEPT !.br = b] : o \in StepInputs(AuditDef),
                                    b \in Browsers})

\* the threshold step called on the world the calls before it left
CallScore == StepCall(ScoreDef)

NextEngines == AuditOnAnyBrowser \/ CallScore

SpecEngines == InitSteps /\ [][NextEngines]_vars

C22_NoStateAcrossBoundary ==
  /\ pc = "before" => (world = NewWorld /\ AllAbsent(world)
                         /\ ~world.hasConfig /\ ~world.hasScore)
  /\ pc = "step" =>
        /\ \A k \in Kinds : world[k] # "null" => k \in Range(acqLog)
        /\ world.hasConfig => (Len(events) >= 1 /\ events[1].ev = "Before")
        /\ world.hasScore =>
              \E i \in 1..Len(events) :
                 /\ events[i].ev = "Step" /\ events[i].status = "passed"
                 /\ Scenario[events[i].idx].def = AuditDef

C22_Witness ==
  /\ pc = "before" /\ wid >= 2 /\ leaked >= 1
  /\ world = NewWorld

\* C25: every step line has a registered step definition, and in the third
\* scenario the audit step and the threshold step are executed whenever the
\* steps before them passed.
C25_EveryStepDefined ==
  /\ \A i \in 1..Len(events) :
        events[i].ev = "Step" => events[i].status # "undefined"
  /\ (scn = 3 /\ pc = "end" /\ ~beforeErr
        /\ \A i \in 1..Len(events) :
              (events[i].ev = "Step" /\ events[i].idx <= 6) =>
                 events[i].status = "passed") =>
        \E i, j \in 1..Len(events) :
           /\ Executed(events[i]) /\ Executed(events[j])
           /\ Scenario[events[i].idx].def = AuditDef
           /\ Scenario[events[j].idx].def = ScoreDef

\* C26: the engine the audit step calls connects to the port the browser
\* launched by Before listens on.
C26_AuditOnLaunchedPort ==
  (call.def = AuditDef /\ call.r.invoked) => call.obs.br.port = AuditPort

\* the score a world launched by Before gets from the audit step is the
\* fallback score
OnlyFallbackStored ==
  world.hasScore => world.accessibilityScore = FallbackScore

----------------------------------------------------------------------------
(* The copies of loadConfig *)

\* config/ with an example.json beside the files of the environments
ConfigFileNames == FileNames \cup {"example"}

ConfigEnvValues == EnvValues \cup {"example"}

InitConfig ==
  /\ profile = "default"
  /\ nodeEnv \in ConfigEnvValues
  /\ files \in [ConfigFileNames -> FileStates]
  /\ scn = 1 /\ attempt = 1 /\ pc = "new" /\ stepIdx = 1
  /\ result = "passed"
  /\ world = NewWorld /\ wid = 0 /\ res = NoRes /\ leaked = 0
  /\ phase = "UNINITIALIZED"
  /\ events = <<>> /\ acqLog = <<>> /\ closeLog = <<>>
  /\ beforeErr = FALSE /\ afterErr = FALSE /\ afterCalls = 0
  /\ beforeRuns = 0 /\ afterRuns = 0
  /\ call = NoCall /\ now = 0 /\ issued = <<>> /\ reports = NoReports

\* the three copies called in the same environment on the same files
CallLoadConfig ==
  /\ call = NoCall
  /\ call' = [def |-> "loadConfig",
              bdd |-> loadConfig(nodeEnv, files),
              lighthouse |-> loadConfigLighthouse(nodeEnv, files),
              e2e |-> loadConfigE2E(nodeEnv, files)]
  /\ UNCHANGED <<now, issued, reports, profile, nodeEnv, files, scn,
                 attempt, pc, stepIdx, result, world, wid, res, leaked,
                 phase, events, acqLog, closeLog, beforeErr, afterErr,
                 afterCalls, beforeRuns, afterRuns>>

NextConfig == CallLoadConfig

SpecConfig == InitConfig /\ [][NextConfig]_vars

\* C27: the three copies of loadConfig return the same result for the same
\* NODE_ENV and the same files, and the triple of local.json when NODE_ENV
\* names no file and local.json is well-formed.
C27_CopiesAgree ==
  call.def = "loadConfig" =>
     /\ call.bdd = call.lighthouse
     /\ call.lighthouse = call.e2e
     /\ (~existsSync(files, nodeEnv) /\ files["local"] = "ok") =>
           \A r \in {call.bdd, call.lighthouse, call.e2e} :
              r.ok /\ r.value = Triple("local")

----------------------------------------------------------------------------
(* clean-lighthouse-reports.js *)

\* files kept in one directory of the initial states
MaxFiles == 2

\* 1000 * 60 * 60 * 24
DayMs == 86400000

\* a file name is the sequence of its parts: 'keycloak-login-<stamp>.html'
\* is <<"keycloak-", "login-", "stamp", ".html">>
FileNamesOfReports ==
  { <<"keycloak-", "login-", "stamp", ".html">>,
    <<"keycloak-", "console-", "stamp", ".json">>,
    <<"keycloak-", "other-", "stamp", ".json">>,
    <<"keycloak-", "login-", "stamp", ".txt">>,
    <<"index", ".html">> }

\* String.prototype.startsWith on such a name
startsWith(file, prefix) ==
  /\ Len(prefix) <= Len(file)
  /\ \A i \in 1..Len(prefix) : file[i] = prefix[i]

\* String.prototype.endsWith, for an extension
endsWith(file, ext) == Len(file) >= 1 /\ file[Len(file)] = ext

\* what fs.statSync gives for a file: it raises, or returns the time since
\* the last modification (Date.now() - stats.mtime.getTime()), in ms
FileMetas ==
  {[stat |-> TRUE, age |-> a] : a \in {DayMs - 1, DayMs, DayMs + 1}}
     \cup {[stat |-> FALSE, age |-> 0]}

\* the contents reports/lighthouse can have
Directories ==
  UNION {[names -> FileMetas] :
           names \in {n \in SUBSET FileNamesOfReports :
                         Cardinality(n) <= MaxFiles}}

\* the text after '--older-than=' ("absent": the option is not given)
OlderThanArgs == {"absent", "abc", "1"}

\* parseInt of that text
parseInt(str) ==
  CASE str = "1" -> [nan |-> FALSE, n |-> 1]
    [] OTHER -> [nan |-> TRUE, n |-> 0]

\* process.argv, and how the confirmation question is answered ("none":
\* no terminal or CI, so that no question is asked), and whether unlinkSync
\* fails
Argvs ==
  [dryRun : BOOLEAN, login : BOOLEAN, console : BOOLEAN, force : BOOLEAN,
   olderThan : OlderThanArgs, answer : {"none", "y", "n"},
   unlinkFails : BOOLEAN]

\* only lighthouse report files are processed
IsReportFile(file) ==
  /\ startsWith(file, <<"keycloak-">>)
  /\ endsWith(file, ".html") \/ endsWith(file, ".json")

\* variant: with both flags a report of either type passes
TypePass_Either(argv, file) ==
  IF argv.login /\ argv.console
  THEN \/ startsWith(file, <<"keycloak-", "login-">>)
       \/ startsWith(file, <<"keycloak-", "console-">>)
  ELSE /\ argv.login => startsWith(file, <<"keycloak-", "login-">>)
       /\ argv.console => startsWith(file, <<"keycloak-", "console-">>)

\* the filter by type
TypePass(argv, file) ==
  /\ argv.login => startsWith(file, <<"keycloak-", "login-">>)
  /\ argv.console => startsWith(file, <<"keycloak-", "console-">>)

\* variant: a file passes the age filter when its age is at least N days
AgePass_NotAtLeast(argv, meta) ==
  IF argv.olderThan = "absent" THEN TRUE
  ELSE IF ~meta.stat THEN FALSE
  ELSE LET olderThanDays == parseInt(argv.olderThan)
       IN  ~olderThanDays.nan /\ meta.age >= olderThanDays.n * DayMs

\* the filter by age: a comparison with NaN is false
AgePass(argv, meta) ==
  IF argv.olderThan = "absent" THEN TRUE
  ELSE IF ~meta.stat THEN FALSE
  ELSE LET olderThanDays == parseInt(argv.olderThan)
       IN  ~(~olderThanDays.nan /\ meta.age < olderThanDays.n * DayMs)

filesToDelete(argv, dir) ==
  {file \in DOMAIN dir :
      IsReportFile(file) /\ TypePass(argv, file) /\ AgePass(argv, dir[file])}

\* variant: --force goes on to the deletion whatever the other flags say
Proceeds_ForceFirst(argv) ==
  \/ argv.force
  \/ ~argv.dryRun /\ argv.answer \in {"none", "y"}

\* performDeletion is reached: not with --dry-run, and when the question
\* is asked only on the answer y
Proceeds(argv) ==
  /\ ~argv.dryRun
  /\ argv.force \/ argv.answer \in {"none", "y"}

Restrict(dir, names) == [file \in names |-> dir[file]]

InitClean ==
  /\ profile = "default"
  /\ nodeEnv = "" /\ files = [n \in FileNames |-> "ok"]
  /\ scn = 1 /\ attempt = 1 /\ pc = "new" /\ stepIdx = 1
  /\ result = "passed"
  /\ world = NewWorld /\ wid = 0 /\ res = NoRes /\ leaked = 0
  /\ phase = "UNINITIALIZED"
  /\ events = <<>> /\ acqLog = <<>> /\ closeLog = <<>>
  /\ beforeErr = FALSE /\ afterErr = FALSE /\ afterCalls = 0
  /\ beforeRuns = 0 /\ afterRuns = 0
  /\ call = NoCall /\ now = 0 /\ issued = <<>>
  /\ reports \in Directories

\* one run of the script
RunClean ==
  /\ call = NoCall
  /\ \E argv \in Argvs :
       LET selected == filesToDelete(argv, reports)
           deleted == IF selected # {} /\ Proceeds(argv) /\ ~argv.unlinkFails
                      THEN selected ELSE {}
           failed == selected # {} /\ Proceeds(argv) /\ argv.unlinkFails
       IN  /\ call' = [def |-> "clean", argv |-> argv, before |-> reports,
                       selected |-> selected, deleted |-> deleted,
                       exit |-> IF failed THEN 1 ELSE 0]
           /\ reports' = Restrict(reports, DOMAIN reports \ deleted)
  /\ UNCHANGED <<now, issued, profile, nodeEnv, files, scn, attempt, pc,
                 stepIdx, result, world, wid, res, leaked, phase, events,
                 acqLog, closeLog, beforeErr, afterErr, afterCalls,
                 beforeRuns, afterRuns>>

NextClean == RunClean

SpecClean == InitClean /\ [][NextClean]_vars

\* the run had a number N after --older-than=
OlderThanNumber ==
  call.argv.olderThan # "absent" /\ ~parseInt(call.argv.olderThan).nan

\* C23: with --older-than=N only files modified more than N days ago are
\* selected, whatever the type flags; a file of age N days or less is not.
C23_OnlyOlderSelected ==
  (call.def = "clean" /\ OlderThanNumber) =>
     \A file \in call.selected :
        /\ call.before[file].stat
        /\ call.before[file].age > parseInt(call.argv.olderThan).n * DayMs

\* C24: with --dry-run the files of the directory after the run are the
\* files before it, whatever the other flags and the directory.
C24_DryRunDeletesNothing ==
  (call.def = "clean" /\ call.argv.dryRun) =>
     (reports = call.before /\ call.deleted = {})

C24_Witness ==
  /\ call.def = "clean" /\ call.argv.dryRun /\ call.argv.force
  /\ ~call.argv.unlinkFails
  /\ call.selected # {} /\ reports = call.before

\* C28: only names that start with 'keycloak-' and end with '.html' or
\* '.json' are deleted and every other file stays as it was; --login
\* deletes only keycloak-login-*, --console only keycloak-console-*, and
\* both flags together delete nothing.
C28_OnlyReportsDeleted ==
  call.def = "clean" =>
     /\ DOMAIN reports = DOMAIN call.before \ call.deleted
     /\ \A file \in DOMAIN reports : reports[file] = call.before[file]
     /\ \A file \in call.deleted :
           /\ file[1] = "keycloak-"
           /\ file[Len(file)] \in {".html", ".json"}
           /\ call.argv.login => file[2] = "login-"
           /\ call.argv.console => file[2] = "console-"
     /\ (call.argv.login /\ call.argv.console) => call.deleted = {}

C28_Witness ==
  /\ call.def = "clean" /\ call.argv.login /\ ~call.argv.console
  /\ call.deleted = {<<"keycloak-", "login-", "stamp", ".html">>}
  /\ DOMAIN reports = {<<"keycloak-", "console-", "stamp", ".json">>}

\* the report files of the directory that pass the type flags of the run
PassTypeFlags ==
  {file \in DOMAIN call.before :
      /\ file[1] = "keycloak-" /\ file[Len(file)] \in {".html", ".json"}
      /\ call.argv.login => file[2] = "login-"
      /\ call.argv.console => file[2] = "console-"}

\* the run had a text after --older-than= that is no number
OlderThanNaN ==
  call.argv.olderThan # "absent" /\ parseInt(call.argv.olderThan).nan

\* C29 as stated: when the text after --older-than= is no number, every
\* report file that passes the type flags is selected, and the run reports
\* no error.
C29_NaNSelectsAll ==
  (call.def = "clean" /\ OlderThanNaN) =>
     /\ call.selected = PassTypeFlags
     /\ ~call.argv.unlinkFails => call.exit = 0

\* C29 (amended): when the text after --older-than= is no number, every
\* report file that passes the type flags and whose modification time can
\* be read is selected whatever its age, and the run reports no error.
C29_NaNSelectsAllReadable ==
  (call.def = "clean" /\ OlderThanNaN) =>
     /\ call.selected = {file \in PassTypeFlags : call.before[file].stat}
     /\ ~call.argv.unlinkFails => call.exit = 0

C29_Witness ==
  /\ call.def = "clean" /\ OlderThanNaN
  /\ \E file \in call.selected : call.before[file].age = DayMs - 1
  /\ \E file \in call.selected : call.before[file].age = DayMs + 1
  /\ call.exit = 0

----------------------------------------------------------------------------
(* The time stamp of a report file: written by the audit tests, read by    *)
(* generate-lighthouse-index.js                                           *)

\* the instants of the model, in UTC
Instants ==
  [Y : {2024, 2025}, Mo : {1, 12}, D : {1, 28}, h : {0, 23}, mi : {0, 59},
   s : {0, 59}, ms : {0, 999}]

\* a text is a sequence of digit groups and separators
Num(v, w) == [k |-> "num", v |-> v, w |-> w, c |-> ""]

Sep(c) == [k |-> "sep", v |-> 0, w |-> 1, c |-> c]

\* Date.prototype.toISOString: YYYY-MM-DDTHH:mm:ss.sssZ
toISOString(i) ==
  << Num(i.Y, 4), Sep("-"), Num(i.Mo, 2), Sep("-"), Num(i.D, 2), Sep("T"),
     Num(i.h, 2), Sep(":"), Num(i.mi, 2), Sep(":"), Num(i.s, 2), Sep("."),
     Num(i.ms, 3), Sep("Z") >>

\* String.prototype.replace(/<one of from>/g, to)
replaceAll(text, from, to) ==
  [j \in 1..Len(text) |->
     IF text[j].k = "sep" /\ text[j].c \in from THEN Sep(to) ELSE text[j]]

\* the number of characters of the first n parts of a text
RECURSIVE Chars(_, _)
Chars(text, n) == IF n = 0 THEN 0 ELSE Chars(text, n - 1) + text[n].w

\* String.prototype.substring(0, n), for an n that ends on a part
substring(text, n) ==
  LET m == CHOOSE m \in 0..Len(text) :
              /\ Chars(text, m) <= n
              /\ m = Len(text) \/ Chars(text, m + 1) > n
  IN  SubSeq(text, 1, m)

\* the shape of a text: the separators, and the widths of the digit groups
Shape(text) ==
  [j \in 1..Len(text) |->
     IF text[j].k = "sep" THEN text[j].c ELSE "d"]

Widths(text) == [j \in 1..Len(text) |-> text[j].w]

\* /(\d{4}-\d{2}-\d{2}T\d{2}-\d{2}-\d{2}-\d{3}Z)/ on the stamp of a name
timestampMatch(text) ==
  /\ Shape(text) = << "d", "-", "d", "-", "d", "T", "d", "-", "d", "-", "d",
                      "-", "d", "Z" >>
  /\ Widths(text) = << 4, 1, 2, 1, 2, 1, 2, 1, 2, 1, 2, 1, 3, 1 >>

InvalidDate == [Y |-> 0, Mo |-> 0, D |-> 0, h |-> 0, mi |-> 0, s |-> 0,
                ms |-> 0]

\* new Date(text): a text of the form YYYY-MM-DDTHH:mm:ssZ is that instant;
\* the texts of another form that occur here are no date for the parser
NewDate(text) ==
  IF /\ Shape(text) = << "d", "-", "d", "-", "d", "T", "d", ":", "d", ":",
                         "d", "Z" >>
     /\ Widths(text) = << 4, 1, 2, 1, 2, 1, 2, 1, 2, 1, 2, 1 >>
  THEN [Y |-> text[1].v, Mo |-> text[3].v, D |-> text[5].v, h |-> text[7].v,
        mi |-> text[9].v, s |-> text[11].v, ms |-> 0]
  ELSE InvalidDate

\* const timestamp = new Date().toISOString().replace(/[:.]/g, '-')
StampOf(i) == replaceAll(toISOString(i), {":", "."}, "-")

\* the name the audit tests give a report written at instant i
ReportName(type, i, ext) == << "keycloak-", type, StampOf(i), ext >>

\* the date the index shows for a report file (readableDate before its
\* formatting for the locale)
ReadableDate(file) ==
  IF ~timestampMatch(file[3]) THEN InvalidDate
  ELSE LET timestamp == file[3]
           colons == replaceAll(timestamp, {"-"}, ":")
           isoTimestamp == Append(SubSeq(colons, 1, Len(colons) - 1),
                                  Sep("Z"))
       IN  NewDate(Append(substring(isoTimestamp, 19), Sep("Z")))

InitIndex ==
  /\ profile = "default"
  /\ nodeEnv = "" /\ files = [n \in FileNames |-> "ok"]
  /\ scn = 1 /\ attempt = 1 /\ pc = "new" /\ stepIdx = 1
  /\ result = "passed"
  /\ world = NewWorld /\ wid = 0 /\ res = NoRes /\ leaked = 0
  /\ phase = "UNINITIALIZED"
  /\ events = <<>> /\ acqLog = <<>> /\ closeLog = <<>>
  /\ beforeErr = FALSE /\ afterErr = FALSE /\ afterCalls = 0
  /\ beforeRuns = 0 /\ afterRuns = 0
  /\ call = NoCall /\ now = 0 /\ issued = <<>>
  /\ reports = NoReports

\* an audit test writes its report
WriteReport ==
  /\ call = NoCall
  /\ \E i \in Instants, type \in {"login-", "console-"},
        ext \in {".html", ".json"} :
       LET file == ReportName(type, i, ext) IN
       /\ reports' = [f \in {file} |-> [stat |-> TRUE, age |-> 0]]
       /\ call' = [def |-> "writeReport", instant |-> i, file |-> file]
  /\ UNCHANGED <<now, issued, profile, nodeEnv, files, scn, attempt, pc,
                 stepIdx, result, world, wid, res, leaked, phase, events,
                 acqLog, closeLog, beforeErr, afterErr, afterCalls,
                 beforeRuns, afterRuns>>

\* the index generator lists the report files of the directory
GenerateIndex ==
  /\ call.def = "writeReport"
  /\ call' = [def |-> "generateIndex", written |-> call.instant,
              entries |-> {[filename |-> file, date |-> ReadableDate(file)] :
                             file \in {f \in DOMAIN reports :
                                          IsReportFile(f)}}]
  /\ UNCHANGED <<reports, now, issued, profile, nodeEnv, files, scn,
                 attempt, pc, stepIdx, result, world, wid, res, leaked,
                 phase, events, acqLog, closeLog, beforeErr, afterErr,
                 afterCalls, beforeRuns, afterRuns>>

NextIndex == WriteReport \/ GenerateIndex

SpecIndex == InitIndex /\ [][NextIndex]_vars

\* C30: the date the index generator derives from the name of a report is
\* the instant the writer put into the name, to the second.
C30_TimestampRoundTrip ==
  call.def = "generateIndex" =>
     /\ call.entries # {}
     /\ \A e \in call.entries :
           /\ e.date # InvalidDate
           /\ e.date = [call.written EXCEPT !.ms = 0]

====
